---- MODULE Spec2Model ----
(***************************************************************************)
(* State machine of GridUrbanAdvanced (SoundscapePrototypeFinal.jsx,       *)
(* src/unnamed/part_000): cursor, region selection, recording chooser,     *)
(* library, placements and the audio nodes of running placements.          *)
(*                                                                         *)
(* React state lives in the variables below.  Every handler is a function  *)
(* from a state record to a state record; Commit is the render that        *)
(* follows a handler together with the effects whose dependencies changed. *)
(* The two window "keydown" listeners (onKeyDown, onSearchKey) read part   *)
(* of the state from the closure of the render in which their effect last  *)
(* ran; those captured values are the variables kd and sk.                 *)
(***************************************************************************)
EXTENDS Integers, Sequences, FiniteSets, TLC

\* ---- bounds of the model ------------------------------------------------
Cols == 4
Rows == 2
MaxSteps == 5
\* arguments of the numeric helpers: fractions n/m with n <= MaxNum and
\* m <= MaxDen, cell lists of at most MaxCells cells
MaxNum == 4
MaxDen == 2
MaxCells == 2

\* ---- program constants ---------------------------------------------------
defaultRadius == 3

\* files listed by /sound-garden/recordings/manifest.json, in order
Manifest == << <<"b", "1">>, <<"B", "2">> >>

VARIABLES cursor, region, regionActive, lastRegionCell,
          searchOpen, searchQuery, searchHighlightIdx,
          library, placements, nodesRef,
          kd, sk, listeners, uidSeq, manifestPos, rehydrating, uploading,
          stored, storedLib, steps, last, removed, stopThrows, probe

vars == << cursor, region, regionActive, lastRegionCell,
           searchOpen, searchQuery, searchHighlightIdx,
           library, placements, nodesRef,
           kd, sk, listeners, uidSeq, manifestPos, rehydrating, uploading,
           stored, storedLib, steps, last, removed, stopThrows, probe >>

\* the decodes in flight: the position of the loop over the manifest, the
\* persisted entries being rehydrated, the uploaded files being decoded
loading == << manifestPos, rehydrating, uploading >>

\* probe holds the arguments and the results of the call of a numeric helper
\* (computeGainFromDistance, centroidToPan) that is examined on its own, or
\* the state of the single-cell variant of the component (part_002), the
\* variant that has the parameter editor
NoProbe == [fn |-> "none"]

\* ---- values --------------------------------------------------------------
Null == [x |-> -1, y |-> -1]

Cells == [x : 0 .. Cols - 1, y : 0 .. Rows - 1]

ArrowKeys == {"ArrowLeft", "ArrowRight", "ArrowUp", "ArrowDown"}

WasdKeys == {"w", "a", "s", "d"}

AlnumKeys == {"B", "2", "z"}

OtherKeys == {"Backspace", "Delete", "Enter", "Escape"}

Max(a, b) == IF a >= b THEN a ELSE b

Min(a, b) == IF a <= b THEN a ELSE b

isArrowKey(k) == k \in ArrowKeys

\* String.prototype.toLowerCase on one character
ToLowerChar(c) == IF c = "B" THEN "b" ELSE IF c = "Z" THEN "z" ELSE c

toLowerCase(str) == [i \in 1 .. Len(str) |-> ToLowerChar(str[i])]

\* String.prototype.includes: q occurs in str as a contiguous substring
includes(str, q) ==
  \E i \in 0 .. Len(str) - Len(q) :
     \A j \in 1 .. Len(q) : str[i + j] = q[j]

\* Array.prototype.findIndex, 1-based; 0 when no element matches
findIndex(seq, c) ==
  IF \E i \in 1 .. Len(seq) : seq[i] = c
  THEN CHOOSE i \in 1 .. Len(seq) : seq[i] = c /\ \A j \in 1 .. i - 1 : seq[j] # c
  ELSE 0

\* the sequence without its i-th element
RemoveAt(seq, i) ==
  [j \in 1 .. Len(seq) - 1 |-> IF j < i THEN seq[j] ELSE seq[j + 1]]

\* ---- geometry ------------------------------------------------------------
\* the cell used when cursorRef.current is null
StartCell == [x |-> Cols \div 2, y |-> 0]

\* (mutant) a step that is not clamped to the grid
computeNextFromKey_NoClamp(cur, key) ==
  IF cur = Null THEN [x |-> Cols \div 2, y |-> 0]
  ELSE [x |-> IF key = "ArrowLeft" THEN cur.x - 1
              ELSE IF key = "ArrowRight" THEN cur.x + 1
              ELSE cur.x,
        y |-> IF key = "ArrowUp" THEN cur.y - 1
              ELSE IF key = "ArrowDown" THEN cur.y + 1
              ELSE cur.y]

computeNextFromKey(cur, key) ==
  IF cur = Null THEN [x |-> Cols \div 2, y |-> 0]
  ELSE [x |-> IF key = "ArrowLeft" THEN Max(0, cur.x - 1)
              ELSE IF key = "ArrowRight" THEN Min(Cols - 1, cur.x + 1)
              ELSE cur.x,
        y |-> IF key = "ArrowUp" THEN Max(0, cur.y - 1)
              ELSE IF key = "ArrowDown" THEN Min(Rows - 1, cur.y + 1)
              ELSE cur.y]

\* (mutant) the distance to the first cell instead of the nearest
minDistanceToPlacement_FirstCell(cursorPos, placement) ==
  IF cursorPos = Null THEN -1
  ELSE (placement.cells[1].x - cursorPos.x) * (placement.cells[1].x - cursorPos.x)
       + (placement.cells[1].y - cursorPos.y) * (placement.cells[1].y - cursorPos.y)

\* squared Euclidean distance to the nearest cell; -1 stands for Infinity
minDistanceToPlacement(cursorPos, placement) ==
  IF cursorPos = Null THEN -1
  ELSE LET D2(i) == (placement.cells[i].x - cursorPos.x) * (placement.cells[i].x - cursorPos.x)
                  + (placement.cells[i].y - cursorPos.y) * (placement.cells[i].y - cursorPos.y)
       IN  CHOOSE d \in {D2(i) : i \in 1 .. Len(placement.cells)} :
             \A i \in 1 .. Len(placement.cells) : d <= D2(i)

\* the gain (1 - sqrt(d2)/radius) * baseVol, kept as the triple that
\* determines it; every zero gain is the same value
ZeroGain == [d2 |-> 0, radius |-> 1, vol |-> 0]

computeGainFromDistance(d2, radius, baseVol) ==
  IF d2 < 0 \/ d2 >= radius * radius \/ baseVol = 0 THEN ZeroGain
  ELSE [d2 |-> d2, radius |-> radius, vol |-> baseVol]

RECURSIVE SumX(_)
SumX(cells) == IF cells = << >> THEN 0 ELSE Head(cells).x + SumX(Tail(cells))

\* centroid.x = sx / n as the pair (sx, n)
computeCentroid(cells) == [sx |-> SumX(cells), n |-> Len(cells)]

\* (mutant) the x coordinate divided by the width instead of width - 1
centroidToPan_FullWidth(centroid, gridWidth) ==
  IF gridWidth <= 1 THEN [num |-> 0, den |-> 1]
  ELSE LET den == centroid.n * gridWidth
           norm == 2 * centroid.sx - den
       IN  [num |-> Max(0 - den, Min(den, norm)), den |-> den]

\* pan = (centroid.x / (gridWidth - 1)) * 2 - 1, clamped to [-1, 1], as the
\* fraction num / den
centroidToPan(centroid, gridWidth) ==
  IF gridWidth <= 1 THEN [num |-> 0, den |-> 1]
  ELSE LET den == centroid.n * (gridWidth - 1)
           norm == 2 * centroid.sx - den
       IN  [num |-> Max(0 - den, Min(den, norm)), den |-> den]

\* ---- arithmetic on fractions num / den, den > 0 --------------------------
Frac(n, m) == [num |-> n, den |-> m]

FLeq(a, b) == a.num * b.den <= b.num * a.den

FEq(a, b) == a.num * b.den = b.num * a.den

FMin(a, b) == IF FLeq(a, b) THEN a ELSE b

FMax(a, b) == IF FLeq(a, b) THEN b ELSE a

FSub(a, b) == Frac(a.num * b.den - b.num * a.den, a.den * b.den)

FMul(a, b) == Frac(a.num * b.num, a.den * b.den)

\* a / b for b > 0
FDiv(a, b) == Frac(a.num * b.den, a.den * b.num)

\* (mutant) the falloff 1 - d, the radius forgotten
computeGainFromDistanceQ_NoRadius(d, radius, baseVol) ==
  IF ~FLeq(d, radius) THEN Frac(0, 1)
  ELSE LET g == FMul(FSub(Frac(1, 1), d), baseVol)
       IN  FMax(Frac(0, 1), FMin(baseVol, g))

\* computeGainFromDistance on numbers: d, radius and baseVol are fractions,
\* and so is the result
computeGainFromDistanceQ(d, radius, baseVol) ==
  IF ~FLeq(d, radius) THEN Frac(0, 1)
  ELSE LET g == FMul(FSub(Frac(1, 1), FDiv(d, radius)), baseVol)
       IN  FMax(Frac(0, 1), FMin(baseVol, g))

\* ---- state records -------------------------------------------------------
State ==
  [cursor |-> cursor, region |-> region, regionActive |-> regionActive,
   lastRegionCell |-> lastRegionCell, searchOpen |-> searchOpen,
   searchQuery |-> searchQuery, searchHighlightIdx |-> searchHighlightIdx,
   library |-> library, placements |-> placements, nodesRef |-> nodesRef,
   kd |-> kd, sk |-> sk, listeners |-> listeners, uidSeq |-> uidSeq,
   stored |-> stored, storedLib |-> storedLib, stopThrows |-> stopThrows]

\* the closure of onSearchKey while the chooser is closed (no listener)
NoSk == [region |-> << >>, regionActive |-> FALSE, searchHighlightIdx |-> 0,
         searchQuery |-> << >>, library |-> << >>]

\* ---- helpers of the component -------------------------------------------
\* uid(prefix): Date.now() and a random number, both in base 36.  A later
\* call has a later time stamp; the value is kept as the number of the call.
uid(s) == s.uidSeq + 1

filteredLibrary(lib, query) ==
  LET q == toLowerCase(query)
      Match(l) == includes(toLowerCase(l.name), q)
  IN  SelectSeq(lib, Match)

\* (mutant) a revisited cell is appended instead of trimming the path
handleRegionMovementWithShift_NoTrim(curCursor, key, reg, lastCell) ==
  LET next == computeNextFromKey(curCursor, key)
  IN  IF lastCell = Null
      THEN [region |-> << curCursor, next >>, lastCell |-> next, next |-> next]
      ELSE [region |-> Append(reg, next), lastCell |-> next, next |-> next]

handleRegionMovementWithShift(curCursor, key, reg, lastCell) ==
  LET next == computeNextFromKey(curCursor, key)
      existingIdx == findIndex(reg, next)
  IN  IF lastCell = Null
      THEN [region |-> << curCursor, next >>, lastCell |-> next, next |-> next]
      ELSE [region |-> IF existingIdx >= 1 THEN SubSeq(reg, 1, existingIdx)
                       ELSE Append(reg, next),
            lastCell |-> next, next |-> next]

\* the placement object built by placeRecordingOnRegion (called without
\* params) and by the single-cell branches
NewPlacement(id, cells, libId) ==
  [id |-> id, cells |-> cells, libId |-> libId,
   params |-> [volume |-> 1, radius |-> defaultRadius, timing |-> 0]]

\* placeRecordingOnRegion as called from a closure whose `region` is reg
placeRecordingOnRegion(s, reg, libItem) ==
  IF reg = << >> THEN s
  ELSE [s EXCEPT !.placements = Append(@, NewPlacement(uid(s), reg, libItem.id)),
                 !.uidSeq = uid(s),
                 !.region = << >>,
                 !.regionActive = FALSE,
                 !.lastRegionCell = Null,
                 !.searchOpen = FALSE]

\* first placement with the given id (Array.prototype.find); 0 when none
PlacementIdx(pls, id) ==
  IF \E i \in 1 .. Len(pls) : pls[i].id = id
  THEN CHOOSE i \in 1 .. Len(pls) : pls[i].id = id /\ \A j \in 1 .. i - 1 : pls[j].id # id
  ELSE 0

\* first library entry with the given id; 0 when none
LibraryIdx(lib, id) ==
  IF \E i \in 1 .. Len(lib) : lib[i].id = id
  THEN CHOOSE i \in 1 .. Len(lib) : lib[i].id = id /\ \A j \in 1 .. i - 1 : lib[j].id # id
  ELSE 0

\* first placement one of whose cells is c; 0 when none
findPlacementAtCell(pls, c) ==
  LET Has(i) == \E k \in 1 .. Len(pls[i].cells) : pls[i].cells[k] = c
  IN  IF \E i \in 1 .. Len(pls) : Has(i)
      THEN CHOOSE i \in 1 .. Len(pls) : Has(i) /\ \A j \in 1 .. i - 1 : ~Has(j)
      ELSE 0

\* (mutant) the pan follows the column of the cursor
updatePlacementGainAndPan_PanFromCursor(placement, cursorPos) ==
  [gain |-> computeGainFromDistance(minDistanceToPlacement(cursorPos, placement),
                                    placement.params.radius, placement.params.volume),
   pan |-> IF cursorPos = Null
           THEN centroidToPan(computeCentroid(placement.cells), Cols)
           ELSE centroidToPan([sx |-> cursorPos.x, n |-> 1], Cols)]

\* the target gain and pan that updatePlacementGainAndPan ramps a voice to
updatePlacementGainAndPan(placement, cursorPos) ==
  [gain |-> computeGainFromDistance(minDistanceToPlacement(cursorPos, placement),
                                    placement.params.radius, placement.params.volume),
   pan |-> centroidToPan(computeCentroid(placement.cells), Cols)]

\* the forEach over nodesRef.current that re-targets every running voice
refreshGains(nodes, pls, cursorPos) ==
  [id \in DOMAIN nodes |->
     IF PlacementIdx(pls, id) = 0 THEN nodes[id]
     ELSE updatePlacementGainAndPan(pls[PlacementIdx(pls, id)], cursorPos)]

\* delete nodesRef.current[id]
DeleteNode(nodes, id) == [i \in DOMAIN nodes \ {id} |-> nodes[i]]

\* (mutant) no try/catch: a throwing stop() leaves the call by the exception
stopPlacementNodes_Rethrows(nodes, throws) == ~throws

\* stopPlacementNodes(nodes): the ramp, src.stop() and the disconnects run
\* inside try { } catch (e) {}; throws says that one of them throws.  The
\* value is whether the call returns to its caller
stopPlacementNodes(nodes, throws) == TRUE

\* stopPlacementNodes(nodesRef.current[id]); delete nodesRef.current[id]:
\* the delete is reached only when the call returned
StopAndDelete(nodes, id, throws) ==
  IF id \in DOMAIN nodes /\ stopPlacementNodes(nodes[id], throws)
  THEN DeleteNode(nodes, id)
  ELSE nodes

\* ---- effects -------------------------------------------------------------
\* the effect on [placements, library]: create missing voices, drop orphans

\* lib && lib.buffer for the entry found by id
HasBuffer(lib, libId) ==
  LibraryIdx(lib, libId) # 0 /\ lib[LibraryIdx(lib, libId)].buffer

\* (mutant) the pass does not look whether the placement already has nodes
NeedsNodes_IgnoresExisting(ids, pl, lib) == HasBuffer(lib, pl.libId)

\* (mutant) placements read from storage (ids of an earlier session) are
\* passed over
NeedsNodes_SessionOnly(ids, pl, lib) ==
  pl.id \notin ids /\ HasBuffer(lib, pl.libId) /\ pl.id > 0

\* the pass creates nodes for pl; ids are the keys of nodesRef.current
NeedsNodes(ids, pl, lib) == pl.id \notin ids /\ HasBuffer(lib, pl.libId)

RECURSIVE CreateNodes(_, _, _, _)
CreateNodes(nodes, pls, lib, cursorPos) ==
  IF pls = << >> THEN nodes
  ELSE LET pl == Head(pls)
       IN  IF ~NeedsNodes(DOMAIN nodes, pl, lib)
           THEN CreateNodes(nodes, Tail(pls), lib, cursorPos)
           ELSE CreateNodes([i \in DOMAIN nodes \cup {pl.id} |->
                               IF i = pl.id THEN updatePlacementGainAndPan(pl, cursorPos)
                               ELSE nodes[i]],
                            Tail(pls), lib, cursorPos)

\* the placements the pass calls createPlacementNodes for, in order
RECURSIVE CreatedIds(_, _, _)
CreatedIds(ids, pls, lib) ==
  IF pls = << >> THEN << >>
  ELSE IF NeedsNodes(ids, Head(pls), lib)
       THEN << Head(pls).id >> \o CreatedIds(ids \cup {Head(pls).id}, Tail(pls), lib)
       ELSE CreatedIds(ids, Tail(pls), lib)

\* the keys the pass calls stopPlacementNodes for and deletes
StoppedIds(ids, pls) == {id \in ids : PlacementIdx(pls, id) = 0}

\* (mutant) the pass creates nodes but never cleans up
Reconcile_KeepsOrphans(nodes, pls, lib, cursorPos, throws) ==
  CreateNodes(nodes, pls, lib, cursorPos)

Reconcile(nodes, pls, lib, cursorPos, throws) ==
  LET created == CreateNodes(nodes, pls, lib, cursorPos)
      deleted == {id \in StoppedIds(DOMAIN created, pls) :
                    stopPlacementNodes(created[id], throws)}
  IN  [id \in DOMAIN created \ deleted |-> created[id]]

\* ---- localStorage ---------------------------------------------------------
\* JSON values: numbers, strings, arrays, and objects as the list of their
\* (key, value) pairs in the order of the properties
JNum(n) == [t |-> "num", v |-> n]

JStr(s) == [t |-> "str", v |-> s]

JArr(seq) == [t |-> "arr", v |-> seq]

JObj(pairs) == [t |-> "obj", v |-> pairs]

\* the value of a property of a JSON object
Field(obj, key) ==
  obj.v[CHOOSE i \in 1 .. Len(obj.v) : obj.v[i][1] = key][2]

\* JSON.stringify(placements): every placement with its own properties
stringifyPlacement(p) ==
  JObj(<< << "id", JStr(p.id) >>,
          << "cells", JArr([k \in 1 .. Len(p.cells) |->
                             JObj(<< << "x", JNum(p.cells[k].x) >>,
                                     << "y", JNum(p.cells[k].y) >> >>)]) >>,
          << "libId", JStr(p.libId) >>,
          << "params", JObj(<< << "volume", JNum(p.params.volume) >>,
                               << "radius", JNum(p.params.radius) >>,
                               << "timing", JNum(p.params.timing) >> >>) >> >>)

stringify(pls) == JArr([i \in 1 .. Len(pls) |-> stringifyPlacement(pls[i])])

\* JSON.parse of the record under PLACEMENTS_KEY
parsePlacement(j) ==
  [id |-> Field(j, "id").v,
   cells |-> [k \in 1 .. Len(Field(j, "cells").v) |->
                [x |-> Field(Field(j, "cells").v[k], "x").v,
                 y |-> Field(Field(j, "cells").v[k], "y").v]],
   libId |-> Field(j, "libId").v,
   params |-> [volume |-> Field(Field(j, "params"), "volume").v,
               radius |-> Field(Field(j, "params"), "radius").v,
               timing |-> Field(Field(j, "params"), "timing").v]]

parse(j) == [i \in 1 .. Len(j.v) |-> parsePlacement(j.v[i])]

\* (mutant) the record is written only when a placement was added
persistPlacements_OnGrowthOnly(o, n) ==
  IF Len(n.placements) > Len(o.placements) THEN stringify(n.placements)
  ELSE n.stored

\* the effect on [placements]: localStorage.setItem(PLACEMENTS_KEY, ...)
persistPlacements(o, n) ==
  IF n.placements # o.placements THEN stringify(n.placements) ELSE n.stored

\* the render after a handler and the effects whose dependencies changed;
\* o is the committed state the handler started from, n the state it set
\* the effect on [library]: the record under LIB_KEY is the list of
\* { id, name, src, type } of the entries, written when library changed.
\* On mount the effect runs with the empty library, after the mount effect
\* has read the record, and writes the empty list
metadata(lib) == [i \in 1 .. Len(lib) |-> [id |-> lib[i].id, name |-> lib[i].name,
                                           src |-> lib[i].src, type |-> lib[i].type]]

persistLibrary(o, n) ==
  IF n.library # o.library THEN metadata(n.library) ELSE n.storedLib

Commit(o, n) ==
  LET storesChanged == n.placements # o.placements \/ n.library # o.library
      kdRerun == n.regionActive # o.regionActive
      skRerun == \/ n.searchOpen # o.searchOpen
                 \/ n.searchHighlightIdx # o.searchHighlightIdx
                 \/ n.regionActive # o.regionActive
      nodes1 == IF storesChanged
                THEN Reconcile(n.nodesRef, n.placements, n.library, n.cursor, n.stopThrows)
                ELSE n.nodesRef
      nodes2 == IF n.cursor # o.cursor /\ n.cursor # Null
                THEN refreshGains(nodes1, n.placements, n.cursor)
                ELSE nodes1
      IsKept(l) == ~((l = "kd" /\ kdRerun) \/ (l = "sk" /\ skRerun))
      kept == SelectSeq(o.listeners, IsKept)
      added == (IF kdRerun THEN << "kd" >> ELSE << >>)
               \o (IF skRerun /\ n.searchOpen THEN << "sk" >> ELSE << >>)
  IN  [n EXCEPT
         !.nodesRef = nodes2,
         !.stored = persistPlacements(o, n),
         !.storedLib = persistLibrary(o, n),
         !.kd = IF kdRerun
                THEN [regionActive |-> n.regionActive, lastRegionCell |-> n.lastRegionCell]
                ELSE o.kd,
         !.sk = IF ~skRerun THEN o.sk
                ELSE IF ~n.searchOpen THEN NoSk
                ELSE [region |-> n.region, regionActive |-> n.regionActive,
                      searchHighlightIdx |-> n.searchHighlightIdx,
                      searchQuery |-> n.searchQuery, library |-> n.library],
         !.listeners = kept \o added]

\* ---- the keydown listeners ----------------------------------------------
\* the branches of the global listener onKeyDown; regionActive and
\* lastRegionCell are read from its closure kd, the rest through refs

\* (mutant) Shift+Arrow that edits the region and leaves the cursor
ShiftArrowBranch_KeepsCursor(s, key) ==
  LET cur == IF s.cursor = Null THEN StartCell ELSE s.cursor
      r == handleRegionMovementWithShift(cur, key, s.region, s.kd.lastRegionCell)
  IN  [s EXCEPT !.region = r.region,
                !.lastRegionCell = r.lastCell,
                !.cursor = cur,
                !.regionActive = TRUE]

\* Shift+Arrow: expand or trim the region and move the cursor
ShiftArrowBranch(s, key) ==
  LET cur == IF s.cursor = Null THEN StartCell ELSE s.cursor
      r == handleRegionMovementWithShift(cur, key, s.region, s.kd.lastRegionCell)
  IN  [s EXCEPT !.region = r.region,
                !.lastRegionCell = r.lastCell,
                !.cursor = r.next,
                !.regionActive = TRUE]

\* (mutant) movement that leaves a region in progress alone
MovementBranch_KeepsRegion(s, key) ==
  LET cur == IF s.cursor = Null THEN StartCell ELSE s.cursor
      realKey == IF key = "w" THEN "ArrowUp"
                 ELSE IF key = "s" THEN "ArrowDown"
                 ELSE IF key = "a" THEN "ArrowLeft"
                 ELSE IF key = "d" THEN "ArrowRight"
                 ELSE key
      next == computeNextFromKey(cur, realKey)
  IN  [s EXCEPT !.cursor = next,
                !.nodesRef = refreshGains(@, s.placements, next)]

\* arrow or W/A/S/D without Shift: move, cancel the region, update gains
MovementBranch(s, key) ==
  LET cur == IF s.cursor = Null THEN StartCell ELSE s.cursor
      realKey == IF key = "w" THEN "ArrowUp"
                 ELSE IF key = "s" THEN "ArrowDown"
                 ELSE IF key = "a" THEN "ArrowLeft"
                 ELSE IF key = "d" THEN "ArrowRight"
                 ELSE key
      next == computeNextFromKey(cur, realKey)
  IN  [s EXCEPT !.cursor = next,
                !.regionActive = IF s.kd.regionActive THEN FALSE ELSE @,
                !.region = IF s.kd.regionActive THEN << >> ELSE @,
                !.lastRegionCell = IF s.kd.regionActive THEN Null ELSE @,
                !.nodesRef = refreshGains(@, s.placements, next)]

\* (mutant) every placement that contains the cursor is removed
DeleteBranch_AllAtCell(s) ==
  LET AtCursor(p) == \E k \in 1 .. Len(p.cells) : p.cells[k] = s.cursor
      Away(p) == ~AtCursor(p)
      gone == {s.placements[i].id : i \in {j \in 1 .. Len(s.placements) :
                                             AtCursor(s.placements[j])}}
  IN  IF s.cursor = Null THEN s
      ELSE [s EXCEPT !.placements = SelectSeq(@, Away),
                     !.nodesRef = [id \in DOMAIN @ \ gone |-> @[id]]]

\* Backspace/Delete: remove the first placement that contains the cursor
DeleteBranch(s) ==
  LET found == IF s.cursor = Null THEN 0 ELSE findPlacementAtCell(s.placements, s.cursor)
      foundId == s.placements[IF found = 0 THEN 1 ELSE found].id
      NotFound(p) == p.id # foundId
  IN  IF found = 0 THEN s
      ELSE [s EXCEPT !.placements = SelectSeq(@, NotFound),
                     !.nodesRef = StopAndDelete(@, foundId, s.stopThrows)]

\* (mutant) Escape that only closes the chooser
EscapeBranch_KeepsRegion(s) == [s EXCEPT !.searchOpen = FALSE]

\* (mutant) Escape that empties the region but leaves the flag
EscapeBranch_KeepsFlag(s) ==
  [s EXCEPT !.searchOpen = FALSE,
            !.region = << >>]

\* Escape: clear search and region
EscapeBranch(s) ==
  [s EXCEPT !.searchOpen = FALSE,
            !.region = << >>,
            !.regionActive = FALSE]

onKeyDown(s, key, shift) ==
  IF shift /\ isArrowKey(key) THEN ShiftArrowBranch(s, key)
  ELSE IF isArrowKey(key) \/ key \in WasdKeys THEN MovementBranch(s, key)
  ELSE IF key \in {"Backspace", "Delete"} THEN DeleteBranch(s)
  ELSE IF key \in AlnumKeys /\ s.kd.regionActive /\ Len(s.region) > 0
  THEN [s EXCEPT !.searchQuery = << key >>,
                 !.searchHighlightIdx = 0,
                 !.searchOpen = TRUE]
  ELSE IF key \in AlnumKeys /\ s.cursor # Null
  THEN [s EXCEPT !.region = << >>,
                 !.regionActive = FALSE,
                 !.searchQuery = << key >>,
                 !.searchHighlightIdx = 0,
                 !.searchOpen = TRUE]
  ELSE IF key = "Escape" THEN EscapeBranch(s)
  ELSE s

\* the item Enter picks: list[searchHighlightIdx] || list[0], both read
\* from the closure of onSearchKey; 0 when the list is empty
ChosenIdx(c) ==
  LET list == filteredLibrary(c.library, c.searchQuery)
  IN  IF c.searchHighlightIdx + 1 <= Len(list) THEN c.searchHighlightIdx + 1
      ELSE IF Len(list) >= 1 THEN 1 ELSE 0

ChosenItem(c) == filteredLibrary(c.library, c.searchQuery)[ChosenIdx(c)]

\* (mutant) the single-cell branch takes its cells from the (empty) region
onSearchKey_CellsFromRegion(s, key) ==
  IF key = "ArrowDown"
  THEN [s EXCEPT !.searchHighlightIdx = @ + 1]
  ELSE IF key = "ArrowUp"
  THEN [s EXCEPT !.searchHighlightIdx = Max(0, @ - 1)]
  ELSE IF key = "Enter"
  THEN IF ChosenIdx(s.sk) = 0 THEN s
       ELSE IF s.sk.regionActive /\ Len(s.region) > 0
       THEN placeRecordingOnRegion(s, s.sk.region, ChosenItem(s.sk))
       ELSE IF s.cursor # Null
       THEN [s EXCEPT !.placements =
                        Append(@, NewPlacement(uid(s), s.region, ChosenItem(s.sk).id)),
                      !.uidSeq = uid(s),
                      !.searchOpen = FALSE]
       ELSE s
  ELSE IF key = "Escape"
  THEN [s EXCEPT !.searchOpen = FALSE]
  ELSE s

\* the listener that exists while the chooser is open
onSearchKey(s, key) ==
  IF key = "ArrowDown"
  THEN [s EXCEPT !.searchHighlightIdx = @ + 1]
  ELSE IF key = "ArrowUp"
  THEN [s EXCEPT !.searchHighlightIdx = Max(0, @ - 1)]
  ELSE IF key = "Enter"
  THEN IF ChosenIdx(s.sk) = 0 THEN s
       ELSE IF s.sk.regionActive /\ Len(s.region) > 0
       THEN placeRecordingOnRegion(s, s.sk.region, ChosenItem(s.sk))
       ELSE IF s.cursor # Null
       THEN [s EXCEPT !.placements =
                        Append(@, NewPlacement(uid(s), << s.cursor >>, ChosenItem(s.sk).id)),
                      !.uidSeq = uid(s),
                      !.searchOpen = FALSE]
       ELSE s
  ELSE IF key = "Escape"
  THEN [s EXCEPT !.searchOpen = FALSE]
  ELSE s

RunListener(l, s, key, shift) ==
  IF l = "kd" THEN onKeyDown(s, key, shift) ELSE onSearchKey(s, key)

\* a listener whose effect re-ran during the dispatch was removed (and its
\* replacement added too late), so it does not see the current event
WasReplaced(l, o, n) ==
  IF l = "kd" THEN n.regionActive # o.regionActive
  ELSE \/ n.searchOpen # o.searchOpen
       \/ n.searchHighlightIdx # o.searchHighlightIdx
       \/ n.regionActive # o.regionActive

\* one keydown event on window: the registered listeners run in order of
\* registration, each followed by the render it caused
Dispatch(s, key, shift) ==
  LET s1 == Commit(s, RunListener(s.listeners[1], s, key, shift))
  IN  IF Len(s.listeners) = 1 \/ WasReplaced(s.listeners[2], s, s1) THEN s1
      ELSE Commit(s1, RunListener(s.listeners[2], s1, key, shift))

\* (mutant) a single-cell placement takes the place of the placements that
\* cover the cell
handlePlaceFromList_ReplacesAtCell(s, item) ==
  LET Away(p) == ~\E k \in 1 .. Len(p.cells) : p.cells[k] = s.cursor
  IN  IF s.regionActive /\ Len(s.region) > 0
      THEN placeRecordingOnRegion(s, s.region, item)
      ELSE IF s.cursor # Null
      THEN [s EXCEPT !.placements = Append(SelectSeq(@, Away),
                                           NewPlacement(uid(s), << s.cursor >>, item.id)),
                     !.uidSeq = uid(s),
                     !.searchOpen = FALSE]
      ELSE s

\* handlePlaceFromList: the Place button of a library row, or a click on
\* a row of the chooser
handlePlaceFromList(s, item) ==
  IF s.regionActive /\ Len(s.region) > 0
  THEN placeRecordingOnRegion(s, s.region, item)
  ELSE IF s.cursor # Null
  THEN [s EXCEPT !.placements = Append(@, NewPlacement(uid(s), << s.cursor >>, item.id)),
                 !.uidSeq = uid(s),
                 !.searchOpen = FALSE]
  ELSE s

\* the Remove button of a placement row
RemoveButton(s, p) ==
  LET Other(x) == x.id # p.id
  IN  [s EXCEPT !.placements = SelectSeq(@, Other),
                !.nodesRef = StopAndDelete(@, p.id, s.stopThrows)]

\* (mutant) the Delete button drops the recording but not its placements
DeleteButton_KeepsPlacements(s, item) ==
  LET OtherLib(l) == l.id # item.id
  IN  [s EXCEPT !.library = SelectSeq(@, OtherLib)]

\* the Delete button of a library row
DeleteButton(s, item) ==
  LET OtherPl(p) == p.libId # item.id
      OtherLib(l) == l.id # item.id
  IN  [s EXCEPT !.placements = SelectSeq(@, OtherPl),
                !.library = SelectSeq(@, OtherLib)]

\* one round of the loop of loadPublicManifest: decode, then setLibrary
ManifestEntry(fname, ok) ==
  [id |-> [kind |-> "pub", name |-> fname, n |-> 0], name |-> fname,
   src |-> [kind |-> "url", name |-> fname], type |-> "public", buffer |-> ok]

\* (mutant) a file whose decode is rejected is left out of the library
addManifestEntry_DropsFailed(s, fname, ok) ==
  LET e == ManifestEntry(fname, ok)
  IN  IF \/ ~ok
         \/ \E i \in 1 .. Len(s.library) :
              \/ s.library[i].id = e.id
              \/ (s.library[i].name = fname /\ s.library[i].type = "public")
      THEN s
      ELSE [s EXCEPT !.library = Append(@, e)]

addManifestEntry(s, fname, ok) ==
  LET e == ManifestEntry(fname, ok)
  IN  IF \E i \in 1 .. Len(s.library) :
           \/ s.library[i].id = e.id
           \/ (s.library[i].name = fname /\ s.library[i].type = "public")
      THEN s
      ELSE [s EXCEPT !.library = Append(@, e)]

\* ---- rehydration and upload -----------------------------------------------
\* uid("upl") as an id of the library; n is the value of uid
UploadId(n) == [kind |-> "upl", name |-> << >>, n |-> n]

\* the data URL FileReader makes of a file's bytes
DataUrl(data) == [kind |-> "data", name |-> data]

\* an entry as the effect on [library] persists it: { id, name, src, type }
Meta(e) == [id |-> e.id, name |-> e.name, src |-> e.src, type |-> e.type]

\* the files a user uploads: two contents under one name, and one content
\* under the name of a file of the manifest as well
UploadFiles ==
  { [name |-> <<"z">>, data |-> <<"d", "1">>],
    [name |-> <<"z">>, data |-> <<"d", "2">>],
    [name |-> <<"b", "1">>, data |-> <<"d", "1">>] }

\* the entry handleFileUpload adds
UploadEntry(file, n) ==
  [id |-> UploadId(n), name |-> file.name, src |-> DataUrl(file.data),
   type |-> "upload", buffer |-> TRUE]

\* what localStorage may hold under LIB_KEY at mount: nothing, or the
\* metadata an earlier session wrote for the library it had (its ids are
\* values uid returned then: -1, 0)
PersistedLibs ==
  { << >>,
    << Meta(ManifestEntry(Manifest[1], TRUE)),
       Meta(UploadEntry([name |-> <<"z">>, data |-> <<"d", "1">>], -1)) >>,
    << Meta(UploadEntry([name |-> <<"z">>, data |-> <<"d", "1">>], -1)),
       Meta(UploadEntry([name |-> <<"b", "1">>, data |-> <<"d", "2">>], 0)) >> }

\* the forEach of the mount effect: public entries are skipped, nothing
\* exists yet in libraryRef.current, every other entry starts decoding
StartRehydration(parsed) ==
  {parsed[i] : i \in {j \in 1 .. Len(parsed) : parsed[j].type # "public"}}

\* (mutant) the rehydrated entry is added without looking at the library
addRehydrated_NoDedupe(s, item, ok) ==
  [s EXCEPT !.library =
     Append(@, [id |-> item.id, name |-> item.name, src |-> item.src,
                type |-> item.type, buffer |-> ok])]

\* the setLibrary of a rehydration decode, resolved (ok) or rejected
addRehydrated(s, item, ok) ==
  IF \E i \in 1 .. Len(s.library) :
       \/ s.library[i].id = item.id
       \/ (s.library[i].name = item.name /\ s.library[i].type = item.type)
  THEN s
  ELSE [s EXCEPT !.library =
          Append(@, [id |-> item.id, name |-> item.name, src |-> item.src,
                     type |-> item.type, buffer |-> ok])]

\* (mutant) duplicates are looked for by name only, not by source
addUpload_NameOnly(s, file) ==
  IF \E i \in 1 .. Len(s.library) :
       s.library[i].type = "upload" /\ s.library[i].name = file.name
  THEN [s EXCEPT !.uidSeq = uid(s)]
  ELSE [s EXCEPT !.library = Append(@, UploadEntry(file, uid(s))),
                 !.uidSeq = uid(s)]

\* reader.onload of handleFileUpload once decodeSrcToBuffer has resolved
addUpload(s, file) ==
  IF \E i \in 1 .. Len(s.library) :
       \/ (s.library[i].type = "upload" /\ s.library[i].name = file.name)
       \/ s.library[i].src = DataUrl(file.data)
  THEN [s EXCEPT !.uidSeq = uid(s)]
  ELSE [s EXCEPT !.library = Append(@, UploadEntry(file, uid(s))),
                 !.uidSeq = uid(s)]

\* (mutant) a rejected decode keeps the file as an entry without a buffer
settleUpload_AddsOnFailure(s, file, ok) ==
  IF ok THEN addUpload(s, file)
  ELSE [s EXCEPT !.library = Append(@, [UploadEntry(file, uid(s)) EXCEPT !.buffer = FALSE]),
                 !.uidSeq = uid(s)]

\* the try / catch of reader.onload: a rejected decode only alerts
settleUpload(s, file, ok) == IF ok THEN addUpload(s, file) ELSE s

\* what localStorage may hold under PLACEMENTS_KEY at mount: nothing, or
\* the placements of an earlier session, two of them on recordings of the
\* manifest and sharing the cell (0,0)
PersistedPlacements ==
  { << >>,
    << NewPlacement(-1, << [x |-> 0, y |-> 0] >>, ManifestEntry(Manifest[1], TRUE).id),
       NewPlacement(0, << [x |-> 0, y |-> 0], [x |-> 1, y |-> 0] >>,
                    ManifestEntry(Manifest[2], TRUE).id) >> }

\* ---- the state machine ---------------------------------------------------
\* every action is one event of the session; a session has at most
\* MaxSteps events.  last records the event that came last (its kind, its
\* key or the row that was clicked), whether a region was active and the
\* chooser open when it arrived, and how many placements there were.
\* removed records the entries the user deleted from the library (id, name,
\* type), each with the number of uploads, the oldest in the queue, whose
\* decode was in flight at the deletion and still is.
Set(s, op, key, arg) ==
  /\ steps < MaxSteps
  /\ steps' = steps + 1
  /\ last' = [op |-> op, key |-> key, arg |-> arg,
              wasActive |-> regionActive, wasOpen |-> searchOpen,
              wasPlaced |-> Len(placements)]
  /\ cursor' = s.cursor
  /\ region' = s.region
  /\ regionActive' = s.regionActive
  /\ lastRegionCell' = s.lastRegionCell
  /\ searchOpen' = s.searchOpen
  /\ searchQuery' = s.searchQuery
  /\ searchHighlightIdx' = s.searchHighlightIdx
  /\ library' = s.library
  /\ placements' = s.placements
  /\ nodesRef' = s.nodesRef
  /\ kd' = s.kd
  /\ sk' = s.sk
  /\ listeners' = s.listeners
  /\ uidSeq' = s.uidSeq
  /\ stored' = s.stored
  /\ storedLib' = s.storedLib
  /\ removed' = IF op = "libDelete"
                THEN removed \cup {[id |-> library[arg].id, name |-> library[arg].name,
                                    type |-> library[arg].type, stale |-> Len(uploading)]}
                ELSE IF op = "uploaded"
                THEN {[r EXCEPT !.stale = IF arg <= @ THEN @ - 1 ELSE @] : r \in removed}
                ELSE removed
  /\ stopThrows' = s.stopThrows
  /\ probe' = probe

Init ==
  /\ cursor = Null
  /\ region = << >>
  /\ regionActive = FALSE
  /\ lastRegionCell = Null
  /\ searchOpen = FALSE
  /\ searchQuery = << >>
  /\ searchHighlightIdx = 0
  /\ library = << >>
  /\ placements \in PersistedPlacements
  /\ nodesRef = << >>
  /\ kd = [regionActive |-> FALSE, lastRegionCell |-> Null]
  /\ sk = NoSk
  /\ listeners = << "kd" >>
  /\ uidSeq = 0
  /\ stored = stringify(placements)
  /\ storedLib = << >>
  /\ manifestPos = 0
  /\ rehydrating = {}
  /\ uploading = << >>
  /\ removed = {}
  /\ stopThrows = FALSE
  /\ probe = NoProbe
  /\ steps = 0
  /\ last = [op |-> "mount", key |-> "", arg |-> 0,
             wasActive |-> FALSE, wasOpen |-> FALSE, wasPlaced |-> 0]

\* the kind of a key event, as the branches of onKeyDown tell them apart
KeyClass(key, shift) ==
  IF shift /\ isArrowKey(key) THEN "shiftArrow"
  ELSE IF isArrowKey(key) \/ key \in WasdKeys THEN "move"
  ELSE IF key \in {"Backspace", "Delete"} THEN "delete"
  ELSE IF key \in AlnumKeys THEN "alnum"
  ELSE key

\* the arrow a movement key stands for
RealKey(key) ==
  IF key = "w" THEN "ArrowUp"
  ELSE IF key = "s" THEN "ArrowDown"
  ELSE IF key = "a" THEN "ArrowLeft"
  ELSE IF key = "d" THEN "ArrowRight"
  ELSE key

KeyDown(key, shift) ==
  /\ Set(Dispatch(State, key, shift), KeyClass(key, shift), RealKey(key), 0)
  /\ UNCHANGED loading

PlaceFromList(i) ==
  /\ i \in 1 .. Len(library)
  /\ Set(Commit(State, handlePlaceFromList(State, library[i])), "place", "", i)
  /\ UNCHANGED loading

RemovePlacement(i) ==
  /\ i \in 1 .. Len(placements)
  /\ Set(Commit(State, RemoveButton(State, placements[i])), "remove", "", i)
  /\ UNCHANGED loading

DeleteLibraryItem(i) ==
  /\ i \in 1 .. Len(library)
  /\ Set(Commit(State, DeleteButton(State, library[i])), "libDelete", "", i)
  /\ UNCHANGED loading

ManifestDecoded(ok) ==
  /\ manifestPos < Len(Manifest)
  /\ Set(Commit(State, addManifestEntry(State, Manifest[manifestPos + 1], ok)), "manifest", "", manifestPos + 1)
  /\ manifestPos' = manifestPos + 1
  /\ UNCHANGED << rehydrating, uploading >>

\* a rehydration decode settles
RehydrateDecoded(item, ok) ==
  /\ item \in rehydrating
  /\ Set(Commit(State, addRehydrated(State, item, ok)), "rehydrated", "", 0)
  /\ rehydrating' = rehydrating \ {item}
  /\ UNCHANGED << manifestPos, uploading >>

\* the user picks a file: FileReader reads it and its decode starts
FileChosen(file) ==
  /\ Set(State, "fileChosen", "", 0)
  /\ uploading' = Append(uploading, file)
  /\ UNCHANGED << manifestPos, rehydrating >>

\* the decode of an uploaded file settles; a rejected decode only alerts
UploadDecoded(i, ok) ==
  /\ i \in 1 .. Len(uploading)
  /\ Set(Commit(State, settleUpload(State, uploading[i], ok)),
         "uploaded", IF ok THEN "" ELSE "alert", i)
  /\ uploading' = RemoveAt(uploading, i)
  /\ UNCHANGED << manifestPos, rehydrating >>

Keys == ArrowKeys \cup WasdKeys \cup AlnumKeys \cup OtherKeys

Next ==
  \/ \E key \in Keys : KeyDown(key, FALSE)
  \/ \E key \in ArrowKeys : KeyDown(key, TRUE)
  \/ \E i \in 1 .. Len(library) : PlaceFromList(i)
  \/ \E i \in 1 .. Len(placements) : RemovePlacement(i)
  \/ \E i \in 1 .. Len(library) : DeleteLibraryItem(i)
  \/ \E ok \in BOOLEAN : ManifestDecoded(ok)

Spec == Init /\ [][Next]_vars

\* ---- voices of placements --------------------------------------------------
\* the events that bear on the voices: cursor movement, the buttons of the
\* two panels and the decodes of the manifest
NextVoice ==
  \/ \E key \in ArrowKeys : KeyDown(key, FALSE)
  \/ \E i \in 1 .. Len(library) : PlaceFromList(i)
  \/ \E i \in 1 .. Len(placements) : RemovePlacement(i)
  \/ \E i \in 1 .. Len(library) : DeleteLibraryItem(i)
  \/ \E ok \in BOOLEAN : ManifestDecoded(ok)

\* the await of loadPublicManifest that is pending settles (the decode
\* resolves or rejects) and the loop goes on to the next file
ManifestSettles ==
  /\ manifestPos < Len(Manifest)
  /\ steps < MaxSteps
  /\ manifestPos' = manifestPos + 1

SpecVoice == Init /\ [][NextVoice]_vars /\ WF_manifestPos(ManifestSettles)

\* ---- the library after a reload -----------------------------------------
\* the page loads with a persisted library record; the decodes of the
\* rehydration, of the manifest and of uploads settle in any order
InitLib ==
  /\ cursor = Null
  /\ region = << >>
  /\ regionActive = FALSE
  /\ lastRegionCell = Null
  /\ searchOpen = FALSE
  /\ searchQuery = << >>
  /\ searchHighlightIdx = 0
  /\ library = << >>
  /\ placements \in PersistedPlacements
  /\ nodesRef = << >>
  /\ kd = [regionActive |-> FALSE, lastRegionCell |-> Null]
  /\ sk = NoSk
  /\ listeners = << "kd" >>
  /\ uidSeq = 0
  /\ stored = stringify(placements)
  /\ storedLib = << >>
  /\ manifestPos = 0
  /\ \E parsed \in PersistedLibs : rehydrating = StartRehydration(parsed)
  /\ uploading = << >>
  /\ removed = {}
  /\ stopThrows = FALSE
  /\ probe = NoProbe
  /\ steps = 0
  /\ last = [op |-> "mount", key |-> "", arg |-> 0,
             wasActive |-> FALSE, wasOpen |-> FALSE, wasPlaced |-> 0]

NextLib ==
  \/ \E item \in rehydrating, ok \in BOOLEAN : RehydrateDecoded(item, ok)
  \/ \E ok \in BOOLEAN : ManifestDecoded(ok)
  \/ \E file \in UploadFiles : FileChosen(file)
  \/ \E i \in 1 .. Len(uploading), ok \in BOOLEAN : UploadDecoded(i, ok)
  \/ \E i \in 1 .. Len(library) : DeleteLibraryItem(i)

SpecLib == InitLib /\ [][NextLib]_vars

\* ---- reload ---------------------------------------------------------------
\* the page is reloaded: the component mounts again and reads the record
\* under PLACEMENTS_KEY; the decodes of the manifest start over.  The reload
\* is the last event of a session that is looked at.
Reload ==
  /\ steps < MaxSteps
  /\ steps' = MaxSteps
  /\ last' = [op |-> "reload", key |-> "", arg |-> 0,
              wasActive |-> regionActive, wasOpen |-> searchOpen,
              wasPlaced |-> Len(placements)]
  /\ cursor' = Null
  /\ region' = << >>
  /\ regionActive' = FALSE
  /\ lastRegionCell' = Null
  /\ searchOpen' = FALSE
  /\ searchQuery' = << >>
  /\ searchHighlightIdx' = 0
  /\ library' = << >>
  /\ placements' = parse(stored)
  /\ stored' = stringify(parse(stored))
  /\ storedLib' = << >>
  /\ nodesRef' = << >>
  /\ kd' = [regionActive |-> FALSE, lastRegionCell |-> Null]
  /\ sk' = NoSk
  /\ listeners' = << "kd" >>
  /\ manifestPos' = 0
  /\ removed' = {}
  /\ stopThrows' = stopThrows
  /\ UNCHANGED << uidSeq, rehydrating, uploading, probe >>

\* the keys that lead to a change of the placements: the arrows (cursor and
\* region), a key that opens the chooser, confirm, and a deletion key
StoreKeys == ArrowKeys \cup {"B", "Enter", "Delete"}

NextStore ==
  \/ \E key \in StoreKeys : KeyDown(key, FALSE)
  \/ \E key \in ArrowKeys : KeyDown(key, TRUE)
  \/ \E i \in 1 .. Len(library) : PlaceFromList(i)
  \/ \E i \in 1 .. Len(placements) : RemovePlacement(i)
  \/ \E i \in 1 .. Len(library) : DeleteLibraryItem(i)
  \/ \E ok \in BOOLEAN : ManifestDecoded(ok)
  \/ Reload

SpecStore == Init /\ [][NextStore]_vars

\* ---- teardown that throws ------------------------------------------------
\* a session in which stopping a voice throws inside stopPlacementNodes
\* (src.stop() of a source that was stopped already or never started)
InitTeardown ==
  /\ cursor = Null
  /\ region = << >>
  /\ regionActive = FALSE
  /\ lastRegionCell = Null
  /\ searchOpen = FALSE
  /\ searchQuery = << >>
  /\ searchHighlightIdx = 0
  /\ library = << >>
  /\ placements \in PersistedPlacements
  /\ nodesRef = << >>
  /\ kd = [regionActive |-> FALSE, lastRegionCell |-> Null]
  /\ sk = NoSk
  /\ listeners = << "kd" >>
  /\ uidSeq = 0
  /\ stored = stringify(placements)
  /\ storedLib = << >>
  /\ manifestPos = 0
  /\ rehydrating = {}
  /\ uploading = << >>
  /\ removed = {}
  /\ stopThrows = TRUE
  /\ probe = NoProbe
  /\ steps = 0
  /\ last = [op |-> "mount", key |-> "", arg |-> 0,
             wasActive |-> FALSE, wasOpen |-> FALSE, wasPlaced |-> 0]

\* the events that tear voices down, and those that set the cursor and
\* create the placements and their voices
NextTeardown ==
  \/ \E key \in ArrowKeys \cup {"Backspace", "Delete"} : KeyDown(key, FALSE)
  \/ \E i \in 1 .. Len(library) : PlaceFromList(i)
  \/ \E i \in 1 .. Len(placements) : RemovePlacement(i)
  \/ \E i \in 1 .. Len(library) : DeleteLibraryItem(i)
  \/ \E ok \in BOOLEAN : ManifestDecoded(ok)

SpecTeardown == InitTeardown /\ [][NextTeardown]_vars

\* ---- the numeric helpers on their own -----------------------------------
\* the component right after mount, nothing persisted
Mounted ==
  /\ cursor = Null
  /\ region = << >>
  /\ regionActive = FALSE
  /\ lastRegionCell = Null
  /\ searchOpen = FALSE
  /\ searchQuery = << >>
  /\ searchHighlightIdx = 0
  /\ library = << >>
  /\ placements = << >>
  /\ nodesRef = << >>
  /\ kd = [regionActive |-> FALSE, lastRegionCell |-> Null]
  /\ sk = NoSk
  /\ listeners = << "kd" >>
  /\ uidSeq = 0
  /\ stored = stringify(placements)
  /\ storedLib = << >>
  /\ manifestPos = 0
  /\ rehydrating = {}
  /\ uploading = << >>
  /\ removed = {}
  /\ stopThrows = FALSE
  /\ steps = 0
  /\ last = [op |-> "mount", key |-> "", arg |-> 0,
             wasActive |-> FALSE, wasOpen |-> FALSE, wasPlaced |-> 0]

program == << cursor, region, regionActive, lastRegionCell,
              searchOpen, searchQuery, searchHighlightIdx,
              library, placements, nodesRef,
              kd, sk, listeners, uidSeq, manifestPos, rehydrating, uploading,
              stored, storedLib, steps, last, removed, stopThrows >>

\* the numbers n/m, n in 0 .. MaxNum, m in 1 .. MaxDen
Numbers == {Frac(n, m) : n \in 0 .. MaxNum, m \in 1 .. MaxDen}

\* two distances, a radius > 0 and a volume >= 0
InitGain ==
  /\ Mounted
  /\ \E d \in Numbers, d2 \in Numbers, radius \in Numbers, v \in Numbers :
        /\ radius.num > 0
        /\ probe = [fn |-> "gain", done |-> FALSE, d |-> d, d2 |-> d2,
                    radius |-> radius, vol |-> v,
                    out |-> Frac(0, 1), out2 |-> Frac(0, 1)]

\* computeGainFromDistance is called on each of the two distances
GainComputed ==
  /\ probe.fn = "gain" /\ ~probe.done
  /\ probe' = [probe EXCEPT !.done = TRUE,
                 !.out = computeGainFromDistanceQ(probe.d, probe.radius, probe.vol),
                 !.out2 = computeGainFromDistanceQ(probe.d2, probe.radius, probe.vol)]
  /\ UNCHANGED program

SpecGain == InitGain /\ [][GainComputed]_vars

\* the lists of 1 .. MaxCells cells of a grid of the given width (of the one
\* column 0 when the width is 0)
CellLists(width) ==
  UNION { [1 .. n -> {[x |-> i, y |-> 0] : i \in 0 .. Max(width, 1) - 1}] :
          n \in 1 .. MaxCells }

\* two lists of cells of a grid of width 0 .. Cols
InitPan ==
  /\ Mounted
  /\ \E width \in 0 .. Cols :
        \E cells \in CellLists(width), cells2 \in CellLists(width) :
           probe = [fn |-> "pan", done |-> FALSE, width |-> width,
                    cells |-> cells, cells2 |-> cells2,
                    out |-> Frac(0, 1), out2 |-> Frac(0, 1)]

\* the pan of each of the two lists, as createPlacementNodes computes it
PanComputed ==
  /\ probe.fn = "pan" /\ ~probe.done
  /\ probe' = [probe EXCEPT !.done = TRUE,
                 !.out = centroidToPan(computeCentroid(probe.cells), probe.width),
                 !.out2 = centroidToPan(computeCentroid(probe.cells2), probe.width)]
  /\ UNCHANGED program

SpecPan == InitPan /\ [][PanComputed]_vars

\* ---- the parameter editor (single-cell variant, part_002) ------------------
\* placements is an object keyed by "x,y" -> { x, y, libId, params, nodes };
\* an object is a function from its property names to their values
KeyOf(c) == << c.x, c.y >>

\* { ...obj, [field]: val }; obj is << >> for the spread of undefined
Spread(obj, field, val) ==
  [f \in DOMAIN obj \cup {field} |-> IF f = field THEN val ELSE obj[f]]

\* prev[key], undefined when the object has no such key
Lookup(pls, k) == IF k \in DOMAIN pls THEN pls[k] ELSE << >>

\* the recordings of the library of the variant, all decoded
EditorLibIds == {"rec1", "rec2"}

\* params of a new placement (selectLibraryItemForCursor)
NewParams ==
  [volume |-> 1, radius |-> defaultRadius, angularRange |-> 360,
   proximityTriggers |-> TRUE, timing |-> 0]

\* what the Save button of the editor can pass to saveEditor
EditorParams ==
  {[NewParams EXCEPT !.volume = v, !.radius = r] : v \in {0, 2}, r \in {1, defaultRadius}}

\* the effect on [placements, library]: a placement without nodes whose
\* recording is decoded gets nodes
ensureNodes(pls) ==
  [k \in DOMAIN pls |->
     IF "nodes" \in DOMAIN pls[k] THEN pls[k]
     ELSE IF "libId" \in DOMAIN pls[k] /\ pls[k]["libId"] \in EditorLibIds
     THEN Spread(pls[k], "nodes", TRUE)
     ELSE pls[k]]

\* the placements the effect calls startPlacementSoundNodes for; each call
\* starts one looping source (src.start), counted in running
Started(pls) ==
  {k \in DOMAIN pls : "nodes" \notin DOMAIN pls[k] /\ "nodes" \in DOMAIN ensureNodes(pls)[k]}

\* the render: the editor panel reads placements[key].params of editorCell
\* and throws when there is no such placement, which unmounts the component
RenderEditor(e) ==
  [e EXCEPT !.placements = ensureNodes(@),
            !.running = @ + Cardinality(Started(e.placements)),
            !.crashed = e.editorCell # Null /\ KeyOf(e.editorCell) \notin DOMAIN e.placements]

\* the movement branch of onKeyDown of the variant
moveCursor(e, key) ==
  IF e.cursor = Null THEN [e EXCEPT !.cursor = StartCell]
  ELSE [e EXCEPT !.cursor = computeNextFromKey(e.cursor, key)]

selectLibraryItemForCursor(e, libId) ==
  IF e.cursor = Null THEN e
  ELSE [e EXCEPT !.placements =
          Spread(@, KeyOf(e.cursor),
                 [x |-> e.cursor.x, y |-> e.cursor.y, libId |-> libId, params |-> NewParams])]

\* stopPlacementSound(key): the Remove button, and Backspace/Delete;
\* stopPlacementSoundSync stops the source of a placement that has nodes
stopPlacementSound(e, k) ==
  IF k \notin DOMAIN e.placements THEN e
  ELSE [e EXCEPT !.placements = [j \in DOMAIN @ \ {k} |-> @[j]],
                 !.running = IF "nodes" \in DOMAIN e.placements[k] THEN @ - 1 ELSE @]

\* the key e, and the Edit button of a placement row
setEditorCell(e, c) == [e EXCEPT !.editorCell = c]

\* (mutant) the entry is replaced by { params } alone
saveEditor_ReplacesEntry(e, params) ==
  IF e.editorCell = Null THEN e
  ELSE [e EXCEPT !.placements = Spread(@, KeyOf(e.editorCell), [params |-> params]),
                 !.editorCell = Null]

\* saveEditor: { ...prev, [key]: { ...prev[key], params } }
saveEditor(e, params) ==
  IF e.editorCell = Null THEN e
  ELSE [e EXCEPT !.placements =
          Spread(@, KeyOf(e.editorCell),
                 Spread(Lookup(@, KeyOf(e.editorCell)), "params", params)),
                 !.editorCell = Null]

\* what localStorage may hold under PLACEMENTS_KEY at mount of the variant
PersistedGrid ==
  { << >>,
    Spread(Spread(<< >>, << 0, 0 >>,
                  [x |-> 0, y |-> 0, libId |-> "rec1", params |-> NewParams]),
           << 1, 0 >>,
           [x |-> 1, y |-> 0, libId |-> "rec2", params |-> NewParams]) }

InitEditor ==
  /\ Mounted
  /\ \E pls \in PersistedGrid :
        probe = [fn |-> "editor", cursor |-> Null, editorCell |-> Null,
                 placements |-> ensureNodes(pls), crashed |-> FALSE,
                 running |-> Cardinality(Started(pls)),
                 n |-> 0, op |-> "mount", arg |-> 0]

\* one event of the variant: its handler, then the render; at most MaxSteps
\* events, none once the component is unmounted
EditorStep(e, op, arg) ==
  /\ probe.fn = "editor" /\ ~probe.crashed /\ probe.n < MaxSteps
  /\ probe' = [RenderEditor(e) EXCEPT !.n = probe.n + 1, !.op = op, !.arg = arg]
  /\ UNCHANGED program

EdMove(key) == EditorStep(moveCursor(probe, key), "move", 0)

EdChoose(libId) ==
  /\ probe.cursor # Null
  /\ EditorStep(selectLibraryItemForCursor(probe, libId), "choose", 0)

EdDeleteKey ==
  /\ probe.cursor # Null
  /\ EditorStep(stopPlacementSound(probe, KeyOf(probe.cursor)), "delete", 0)

EdRemoveButton(k) ==
  /\ k \in DOMAIN probe.placements
  /\ EditorStep(stopPlacementSound(probe, k), "remove", 0)

EdEditKey ==
  /\ probe.cursor # Null /\ KeyOf(probe.cursor) \in DOMAIN probe.placements
  /\ EditorStep(setEditorCell(probe, probe.cursor), "edit", 0)

EdEditButton(k) ==
  /\ k \in DOMAIN probe.placements
  /\ EditorStep(setEditorCell(probe, [x |-> probe.placements[k]["x"],
                                       y |-> probe.placements[k]["y"]]), "edit", 0)

EdCancel ==
  /\ probe.editorCell # Null
  /\ EditorStep(setEditorCell(probe, Null), "cancel", 0)

EdSave(params) ==
  /\ probe.editorCell # Null
  /\ EditorStep(saveEditor(probe, params), "save", params)

NextEditor ==
  \/ \E key \in ArrowKeys : EdMove(key)
  \/ \E libId \in EditorLibIds : EdChoose(libId)
  \/ EdDeleteKey
  \/ \E c \in Cells : EdRemoveButton(KeyOf(c))
  \/ EdEditKey
  \/ \E c \in Cells : EdEditButton(KeyOf(c))
  \/ EdCancel
  \/ \E params \in EditorParams : EdSave(params)

SpecEditor == InitEditor /\ [][NextEditor]_vars

\* ---- vocabulary of the properties ---------------------------------------
\* the step is a key event of this kind (last' is the event of the step)
Shifted == last'.op = "shiftArrow"

Moved == last'.op = "move"

Pressed(key) == last'.op = key

Placed == last'.op = "place"

\* the cell a directional input starts from
CurCell == IF cursor = Null THEN StartCell ELSE cursor

Idle == ~regionActive /\ region = << >>

Building == regionActive /\ region # << >>

NoRepeat(seq) == \A i, j \in 1 .. Len(seq) : i # j => seq[i] # seq[j]

\* C1: from Idle, however it was reached, a Shift+Arrow input makes the
\* region exactly [current cursor cell, computed next cell] and enters
\* Building.
C1_IdleShiftStartsTwoCellRegion ==
  [][(Idle /\ Shifted)
       => /\ region' = << CurCell, computeNextFromKey(CurCell, last'.key) >>
          /\ regionActive']_vars

\* C2: in every reachable state the region contains no cell twice.
C2_RegionHasNoRepeatedCell == NoRepeat(region)

\* C3: region trim law.  In Building a Shift+Arrow input whose computed cell
\* occurs in the region at index i leaves exactly the prefix up to i; when
\* the cell does not occur it is appended at the end.
C3_TrimLaw ==
  [][(Building /\ Shifted)
       => LET next == computeNextFromKey(cursor, last'.key)
              i == findIndex(region, next)
          IN  region' = IF i >= 1 THEN SubSeq(region, 1, i)
                        ELSE Append(region, next)]_vars

\* a Shift+Arrow input has just trimmed a region of two or more cells back
\* to its anchor
C3_Witness ==
  /\ last.op = "shiftArrow" /\ last.wasActive
  /\ steps = 2
  /\ regionActive /\ Len(region) = 1 /\ cursor = region[1]

\* the recording the chooser shows as chosen: the row of the filtered list
\* at the highlight, or the first row when the highlight is past the end
ShownIdx == ChosenIdx(State)

ShownItem == ChosenItem(State)

\* C4: Enter in the chooser while Building creates exactly one placement
\* whose cells are the region as it stands at that moment, bound to the
\* chosen recording, and leaves the region empty.
C4_CommitTakesCurrentRegion ==
  [][(searchOpen /\ Building /\ ShownIdx # 0 /\ Pressed("Enter"))
       => /\ Len(placements') = Len(placements) + 1
          /\ SubSeq(placements', 1, Len(placements)) = placements
          /\ placements'[Len(placements')].cells = region
          /\ placements'[Len(placements')].libId = ShownItem.id
          /\ region' = << >>
          /\ ~regionActive']_vars

\* C5: confirming a recording while Idle with the cursor set (Enter in the
\* chooser, or a click on a recording) appends exactly one placement with
\* cells = [cursor], the chosen recording, volume 1, the default radius and
\* timing 0.
C5_SingleCellPlacement ==
  [][/\ (searchOpen /\ Idle /\ cursor # Null /\ ShownIdx # 0 /\ Pressed("Enter"))
          => \E id \in 1 .. MaxSteps :
               placements' = Append(placements,
                 [id |-> id, cells |-> << cursor >>, libId |-> ShownItem.id,
                  params |-> [volume |-> 1, radius |-> defaultRadius, timing |-> 0]])
     /\ (Idle /\ cursor # Null /\ Placed)
          => \E id \in 1 .. MaxSteps :
               placements' = Append(placements,
                 [id |-> id, cells |-> << cursor >>, libId |-> library[last'.arg].id,
                  params |-> [volume |-> 1, radius |-> defaultRadius, timing |-> 0]])]_vars

\* C6: every placement in the store has at least one cell, and a request
\* to place a recording with no region and no cursor creates no placement
\* and changes no store.
C6_PlacementsNonEmpty ==
  /\ [](\A i \in 1 .. Len(placements) : placements[i].cells # << >>)
  /\ [][(region = << >> /\ cursor = Null /\ Placed)
          => UNCHANGED << placements, library >>]_vars

\* a region of two or more cells has just been committed by Enter
C6_Witness ==
  /\ last.op = "Enter" /\ last.wasOpen /\ last.wasActive
  /\ Len(placements) = 1 /\ Len(placements[1].cells) >= 2
  /\ region = << >>

\* C7: with the cursor unset, a directional input of any direction, with or
\* without Shift, sets the cursor to exactly {floor(cols/2), 0}.
C7_FirstInputSetsStartCell ==
  [][(cursor = Null /\ (Moved \/ Shifted)) => cursor' = StartCell]_vars

\* a directional input would carry the cursor across an edge of the grid
CrossesEdge(c, key) ==
  \/ key = "ArrowLeft" /\ c.x = 0
  \/ key = "ArrowRight" /\ c.x = Cols - 1
  \/ key = "ArrowUp" /\ c.y = 0
  \/ key = "ArrowDown" /\ c.y = Rows - 1

\* C8: the cursor is unset or inside the grid; a directional input that would
\* cross an edge leaves the cursor where it is; a set cursor is never unset.
C8_CursorStaysInGrid ==
  /\ [](cursor = Null \/ cursor \in Cells)
  /\ [][/\ cursor # Null => cursor' # Null
        /\ (cursor # Null /\ (Moved \/ Shifted) /\ CrossesEdge(cursor, last'.key))
             => cursor' = cursor]_vars

\* the second input of a session, a movement upward, has just been clamped
\* at the top edge: the first input had set the cursor beside the start cell
C8_Witness ==
  /\ last.op = "move" /\ last.key = "ArrowUp"
  /\ steps = 2
  /\ cursor = [x |-> (Cols \div 2) - 1, y |-> 0]

\* C9: an unmodified directional input (arrow or W/A/S/D) while Building
\* empties the region, returns to Idle and moves the cursor one clamped step.
C9_MoveCancelsRegion ==
  [][(Building /\ Moved)
       => /\ region' = << >>
          /\ ~regionActive'
          /\ cursor' = computeNextFromKey(cursor, last'.key)]_vars

\* an unmodified movement has just arrived while a region was active
C9_Witness ==
  /\ last.op = "move" /\ last.wasActive
  /\ region = << >> /\ ~regionActive /\ cursor # Null

\* C10: Escape, in any state, leaves the region empty, the region-active flag
\* false and the chooser closed, and changes neither the cursor nor the
\* placements nor the library.
C10_EscapeClears ==
  [][Pressed("Escape")
       => /\ region' = << >>
          /\ ~regionActive'
          /\ ~searchOpen'
          /\ UNCHANGED << cursor, placements, library >>]_vars

\* Escape has just arrived while a region was active and the chooser open
C10_Witness ==
  /\ last.op = "Escape" /\ last.wasActive /\ last.wasOpen
  /\ region = << >> /\ ~regionActive /\ ~searchOpen

LibDeleted == last'.op = "libDelete"

\* C11: cascade law.  Deleting recording R from the library removes exactly
\* the placements bound to R, in place, and exactly the entry R; every other
\* placement and every other library entry stays as it was.
C11_CascadeLaw ==
  [][LibDeleted
       => LET R == library[last'.arg]
              NotOfR(p) == p.libId # R.id
          IN  /\ placements' = SelectSeq(placements, NotOfR)
              /\ library' = RemoveAt(library, last'.arg)]_vars

\* of three placements the two bound to the deleted recording are gone;
\* the third and the other recording are left
C11_Witness ==
  /\ last.op = "libDelete" /\ last.wasPlaced = 3
  /\ Len(placements) = 1 /\ Len(library) = 1

NoTwoAlike(lib) ==
  \A i, j \in 1 .. Len(lib) :
     i # j => /\ lib[i].id # lib[j].id
              /\ ~(lib[i].name = lib[j].name /\ lib[i].type = lib[j].type)

\* C12: however the decodes of the rehydration, of the manifest and of
\* uploads interleave, the library never holds two entries with the same id
\* or with the same name and origin kind.
C12_LibraryHasNoDuplicate == NoTwoAlike(library)

\* the user uploaded file z again while the persisted upload z was still
\* decoding; the upload settled first and the rehydration added nothing
C12_Witness ==
  /\ last.op = "rehydrated"
  /\ rehydrating = {}
  /\ library = << UploadEntry([name |-> <<"z">>, data |-> <<"d", "1">>], 1) >>

\* C13: after each reconciliation pass a placement has a voice exactly when
\* it is in the store and its recording has a decoded buffer; no voice is
\* left for a removed placement or for one whose recording was deleted.
C13_VoiceIffPlacementAndBuffer ==
  /\ \A i \in 1 .. Len(placements) :
        placements[i].id \in DOMAIN nodesRef <=> HasBuffer(library, placements[i].libId)
  /\ \A id \in DOMAIN nodesRef : PlacementIdx(placements, id) # 0

\* the decode of the first file of the manifest has given the rehydrated
\* placement on it a voice; the other placement waits for its recording
C13_Witness ==
  /\ last.op = "manifest" /\ last.arg = 1
  /\ Len(placements) = 2
  /\ DOMAIN nodesRef = {placements[1].id}

\* C14: reconciliation is idempotent.  A second pass over the same
\* placements, library and cursor creates no voice, tears none down and
\* leaves the same voices.
C14_ReconcileIdempotent ==
  /\ CreatedIds(DOMAIN nodesRef, placements, library) = << >>
  /\ StoppedIds(DOMAIN nodesRef, placements) = {}
  /\ Reconcile(nodesRef, placements, library, cursor, stopThrows) = nodesRef

\* the pass after the decode of the second file created one voice next to
\* the voice an earlier pass had created
C14_Witness ==
  /\ last.op = "manifest" /\ last.arg = 2
  /\ Len(placements) = 2
  /\ DOMAIN nodesRef = {placements[1].id, placements[2].id}

\* squared Euclidean distance between two cells
Dist2(a, b) == (a.x - b.x) * (a.x - b.x) + (a.y - b.y) * (a.y - b.y)

\* the cursor is on a cell of the placement
OnCell(c, pl) == \E k \in 1 .. Len(pl.cells) : pl.cells[k] = c

\* the cursor is farther than the radius from every cell of the placement
OutOfReach(c, pl) ==
  \A k \in 1 .. Len(pl.cells) :
     Dist2(c, pl.cells[k]) > pl.params.radius * pl.params.radius

\* gainFromDistance at the nearest cell of the placement, as the triple
\* (squared distance, radius, volume) that determines it
TargetGain(c, pl) ==
  IF c = Null \/ pl.params.volume = 0 THEN ZeroGain
  ELSE LET near == CHOOSE k \in 1 .. Len(pl.cells) :
                     \A j \in 1 .. Len(pl.cells) :
                        Dist2(c, pl.cells[k]) <= Dist2(c, pl.cells[j])
           d2 == Dist2(c, pl.cells[near])
       IN  IF d2 >= pl.params.radius * pl.params.radius THEN ZeroGain
           ELSE [d2 |-> d2, radius |-> pl.params.radius, vol |-> pl.params.volume]

\* C15: in every state (so after every cursor change and after every voice
\* creation) the target gain of each voice is gainFromDistance of the
\* distance from the cursor to the nearest cell of its placement; it is 0
\* while the cursor is unset, the placement's volume when the cursor is on
\* one of its cells, and 0 when the cursor is out of reach of all of them.
C15_GainFollowsCursor ==
  \A i \in 1 .. Len(placements) :
     placements[i].id \in DOMAIN nodesRef
       => LET pl == placements[i]
              g == nodesRef[pl.id].gain
          IN  /\ g = TargetGain(cursor, pl)
              /\ cursor = Null => g = ZeroGain
              /\ (cursor # Null /\ OnCell(cursor, pl))
                    => g = [d2 |-> 0, radius |-> pl.params.radius, vol |-> pl.params.volume]
              /\ (cursor # Null /\ OutOfReach(cursor, pl)) => g = ZeroGain

\* a Shift+Arrow input has just moved the cursor onto the second cell of a
\* placement that has a voice
C15_Witness ==
  /\ last.op = "shiftArrow"
  /\ Len(placements) = 2 /\ Len(placements[2].cells) = 2
  /\ placements[2].id \in DOMAIN nodesRef
  /\ cursor = placements[2].cells[2]

\* C16: for a radius > 0 and a volume v >= 0, gainFromDistance(d, radius, v)
\* is 0 for every d >= radius, v for d = 0, lies in [0, v] for every d >= 0,
\* and is non-increasing in d.
C16_GainLaws ==
  (probe.fn = "gain" /\ probe.done)
    => /\ FLeq(probe.radius, probe.d) => probe.out.num = 0
       /\ probe.d.num = 0 => FEq(probe.out, probe.vol)
       /\ FLeq(Frac(0, 1), probe.out) /\ FLeq(probe.out, probe.vol)
       /\ FLeq(probe.d, probe.d2) => FLeq(probe.out2, probe.out)

\* the gain strictly between 0 and the volume, at a distance strictly
\* between 0 and the radius, and a farther distance with a smaller gain
C16_Witness ==
  /\ probe.fn = "gain" /\ probe.done
  /\ probe.d.num > 0 /\ ~FLeq(probe.radius, probe.d)
  /\ probe.out.num > 0 /\ ~FLeq(probe.vol, probe.out)
  /\ ~FLeq(probe.d2, probe.d) /\ ~FLeq(probe.out, probe.out2)

\* the x coordinate of the centroid of a list of cells, as a fraction
CentroidX(cells) == Frac(SumX(cells), Len(cells))

\* C17: for a non-empty list of cells of a grid of width w >= 2 the pan lies
\* in [-1, 1], is -1 when every cell has x = 0 and +1 when every cell has
\* x = w - 1, and is non-decreasing in the centroid's x; for w <= 1 it is 0.
C17_PanLaws ==
  (probe.fn = "pan" /\ probe.done)
    => /\ probe.width >= 2
            => /\ FLeq(Frac(-1, 1), probe.out) /\ FLeq(probe.out, Frac(1, 1))
               /\ (\A k \in 1 .. Len(probe.cells) : probe.cells[k].x = 0)
                     => FEq(probe.out, Frac(-1, 1))
               /\ (\A k \in 1 .. Len(probe.cells) :
                      probe.cells[k].x = probe.width - 1)
                     => FEq(probe.out, Frac(1, 1))
               /\ FLeq(CentroidX(probe.cells), CentroidX(probe.cells2))
                     => FLeq(probe.out, probe.out2)
       /\ probe.width <= 1 => probe.out.num = 0

\* a pan strictly between -1 and 0 and a second one strictly greater, of a
\* centroid farther to the right
C17_Witness ==
  /\ probe.fn = "pan" /\ probe.done /\ probe.width >= 3
  /\ ~FLeq(probe.out, Frac(-1, 1)) /\ ~FLeq(Frac(0, 1), probe.out)
  /\ ~FLeq(CentroidX(probe.cells2), CentroidX(probe.cells))
  /\ ~FLeq(probe.out2, probe.out)

\* the pan 2 * x / (width - 1) - 1 of the mean column x of a list of cells
PanOfCells(cells) ==
  FSub(FMul(Frac(2, 1), FDiv(CentroidX(cells), Frac(Cols - 1, 1))), Frac(1, 1))

\* C18: the target pan of a voice is static: a voice that exists before and
\* after a step (a cursor movement, a chooser action, a change to other
\* placements or to the library) has the same pan after it, and a voice
\* that a step creates gets the pan of its placement's cells and the width.
C18_PanIsStatic ==
  [][/\ \A id \in DOMAIN nodesRef \cap DOMAIN nodesRef' :
          nodesRef'[id].pan = nodesRef[id].pan
     /\ \A i \in 1 .. Len(placements') :
          (placements'[i].id \in DOMAIN nodesRef' \ DOMAIN nodesRef)
            => FEq(nodesRef'[placements'[i].id].pan,
                   PanOfCells(placements'[i].cells))]_vars

\* a voice off the centre has lived through a cursor movement that changed
\* its gain, and the cursor is not in the column of its pan
C18_Witness ==
  /\ last.op = "move" /\ last.key = "ArrowDown"
  /\ cursor = [x |-> Cols \div 2, y |-> 1]
  /\ Len(placements) = 2
  /\ placements[1].id \in DOMAIN nodesRef
  /\ nodesRef[placements[1].id].pan = [num |-> 0 - (Cols - 1), den |-> Cols - 1]
  /\ nodesRef[placements[1].id].gain # ZeroGain

\* a Backspace or Delete key has just been handled
KeyDeleted == last'.op = "delete"

\* the placements, in store order, that have the cursor cell among their cells
AtCursor == {i \in 1 .. Len(placements) : cursor # Null /\ OnCell(cursor, placements[i])}

\* C19: a Backspace/Delete input removes exactly the first placement in store
\* order whose cells include the cursor cell, together with its voice, and
\* leaves every other placement and voice as it was, also when several
\* placements overlap that cell; when no placement contains the cursor cell,
\* or the cursor is unset, placements and voices are unchanged.
C19_DeleteRemovesFirstAtCursor ==
  [][KeyDeleted
       => IF AtCursor = {}
          THEN placements' = placements /\ nodesRef' = nodesRef
          ELSE LET first == CHOOSE i \in AtCursor : \A j \in AtCursor : i <= j
               IN  /\ placements' = RemoveAt(placements, first)
                   /\ DOMAIN nodesRef' = DOMAIN nodesRef \ {placements[first].id}
                   /\ \A id \in DOMAIN nodesRef' : nodesRef'[id] = nodesRef[id]]_vars

\* a deletion at a cell that two placements with voices shared: the first
\* is gone with its voice, the second is left with its own
C19_Witness ==
  /\ last.op = "delete" /\ last.wasPlaced = 2
  /\ cursor = [x |-> 0, y |-> 0]
  /\ Len(placements) = 1
  /\ OnCell(cursor, placements[1])
  /\ DOMAIN nodesRef = {placements[1].id}

\* the keys that /^[a-z0-9]$/i matches, among the keys of the model
AlphanumericKeys == AlnumKeys \cup WasdKeys

\* C20: pressing an alphanumeric key while the cursor is set and the chooser
\* is closed opens the chooser with the query equal to that character and
\* the highlight at index 0, and does not move the cursor.
C20_AlnumOpensChooser ==
  [][\A k \in AlphanumericKeys :
       (cursor # Null /\ ~searchOpen /\ KeyDown(k, FALSE))
         => /\ searchOpen'
            /\ searchQuery' = << k >>
            /\ searchHighlightIdx' = 0
            /\ cursor' = cursor]_vars

\* a decode has just settled that was in flight when r was deleted
StaleDecodeSettled(r) ==
  \/ last'.op \in {"rehydrated", "manifest"}
  \/ last'.op = "uploaded" /\ last'.arg <= r.stale

\* the library has an entry with the id or the name and type of r
HasAlike(lib, r) ==
  \E k \in 1 .. Len(lib) :
     lib[k].id = r.id \/ (lib[k].name = r.name /\ lib[k].type = r.type)

\* C21: once the user has deleted a recording, no completion of a decode
\* that was in flight at the deletion (rehydration, manifest or upload) adds
\* an entry with the same id or the same name and type back to the library.
C21_NoResurrection ==
  [][\A r \in removed :
       (StaleDecodeSettled(r) /\ ~HasAlike(library, r)) => ~HasAlike(library', r)]_vars

\* the decode of an upload has just resolved
UploadResolved == last'.op = "uploaded" /\ last'.key = ""

\* the decode of an upload has just been rejected
UploadRejected == last'.op = "uploaded" /\ last'.key = "alert"

\* the file whose decode has just settled
SettledFile == uploading[last'.arg]

\* C22: an entry that is in the library without a buffer is promoted in
\* place once a decode of its source resolves: it then has a buffer under the
\* same id, and the number of library entries is unchanged.
C22_PromotedInPlace ==
  [][\A k \in 1 .. Len(library) :
       (/\ ~library[k].buffer
        /\ UploadResolved
        /\ DataUrl(SettledFile.data) = library[k].src)
         => /\ Len(library') = Len(library)
            /\ library'[k].id = library[k].id
            /\ library'[k].buffer]_vars

\* C23: when the decode of an uploaded file fails no entry is added and the
\* library, the placements, the voices, the cursor and the region are
\* unchanged; the only effect is the error message.
C23_FailedUploadChangesNothing ==
  [][UploadRejected
       => /\ library' = library
          /\ placements' = placements
          /\ nodesRef' = nodesRef
          /\ cursor' = cursor
          /\ region' = region
          /\ uidSeq' = uidSeq]_vars

\* an upload has just been rejected while the library had an entry with a
\* placement playing it
C23_Witness ==
  /\ last.op = "uploaded" /\ last.key = "alert"
  /\ Len(library) = 1
  /\ Len(placements) = 2
  /\ DOMAIN nodesRef # {}

\* one round of the manifest loop has just settled
ManifestSettled == last'.op = "manifest"

\* the entry of the library is offered by the chooser for the query
Offered(lib, e, query) ==
  \E j \in 1 .. Len(filteredLibrary(lib, query)) : filteredLibrary(lib, query)[j] = e

\* C24: a manifest entry is added to the library, with its id, name, source
\* and type public, also when its decode fails (then without a buffer),
\* unless an entry with the same id or the same name and type public exists;
\* an entry without a buffer is offered by the chooser whenever its name
\* matches the query, and a placement bound to it has no voice.
C24_FailedManifestEntryIsKept ==
  [][/\ ManifestSettled
          => LET e == Meta(ManifestEntry(Manifest[last'.arg], FALSE))
             IN  IF \E k \in 1 .. Len(library) :
                       \/ library[k].id = e.id
                       \/ (library[k].name = e.name /\ library[k].type = "public")
                 THEN library' = library
                 ELSE /\ Len(library') = Len(library) + 1
                      /\ SubSeq(library', 1, Len(library)) = library
                      /\ Meta(library'[Len(library')]) = e
     /\ \A k \in 1 .. Len(library') :
          ~library'[k].buffer
            => /\ includes(toLowerCase(library'[k].name), toLowerCase(searchQuery'))
                    => Offered(library', library'[k], searchQuery')
               /\ \A i \in 1 .. Len(placements') :
                    placements'[i].libId = library'[k].id
                      => placements'[i].id \notin DOMAIN nodesRef']_vars

\* the decode of the first file of the manifest has just been rejected with
\* the chooser open: the entry has no buffer, the chooser offers it, and the
\* placement bound to it has no voice
C24_Witness ==
  /\ last.op = "manifest" /\ last.arg = 1
  /\ library = << ManifestEntry(Manifest[1], FALSE) >>
  /\ searchOpen /\ ShownIdx # 0 /\ ShownItem = library[1]
  /\ Len(placements) = 2 /\ placements[1].libId = library[1].id
  /\ nodesRef = << >>

\* the decode of an upload has just settled, resolved or rejected
UploadSettled == last'.op = "uploaded"

\* the file has the name of an upload entry of the library, or the payload
\* of any of its entries
IsDuplicate(file, lib) ==
  \E k \in 1 .. Len(lib) :
     \/ (lib[k].type = "upload" /\ lib[k].name = file.name)
     \/ lib[k].src = DataUrl(file.data)

\* C25 (as claimed): an upload whose name equals that of an upload entry, or
\* whose payload equals the source of any entry, leaves the library
\* unchanged and raises no error, in whatever order the decodes settle.
C25_DuplicateUploadIsSilent ==
  [][(UploadSettled /\ IsDuplicate(SettledFile, library))
       => (library' = library /\ last'.key # "alert")]_vars

\* C25 (amended): such an upload leaves the library unchanged in whatever
\* order the decodes settle, and raises no error when its decode resolves;
\* the decode error is shown exactly when its decode is rejected (when the
\* handler did not get as far as uid).
C25_DuplicateUploadIsDropped ==
  [][(UploadSettled /\ IsDuplicate(SettledFile, library))
       => /\ library' = library
          /\ (last'.key = "alert") = (uidSeq' = uidSeq)]_vars

\* of two uploads under one name the second to be chosen settled first and
\* was added; the first has just resolved and was dropped
C25_Witness ==
  /\ last.op = "uploaded" /\ last.key = "" /\ last.arg = 1
  /\ uploading = << >>
  /\ uidSeq = 2
  /\ Len(library) = 1 /\ library[1].id = UploadId(1)
  /\ library[1].src = DataUrl(<<"d", "2">>)

EditorSaved == probe'.fn = "editor" /\ probe'.op = "save"

\* C28: an editor save changes only the params of the edited placement: its
\* position and its recording are unchanged, every other placement is
\* unchanged, and the store keeps its shape (the same keys, every entry with
\* the same properties).
C28_SaveChangesOnlyParams ==
  [][EditorSaved
       => LET k == KeyOf(probe.editorCell)
              old == probe.placements
              new == probe'.placements
          IN  /\ DOMAIN new = DOMAIN old
              /\ \A j \in DOMAIN old \ {k} : new[j] = old[j]
              /\ DOMAIN new[k] = DOMAIN old[k]
              /\ \A f \in DOMAIN old[k] \ {"params"} : new[k][f] = old[k][f]
              /\ new[k]["params"] = probe'.arg]_vars

\* a save has just given one of two placements a volume of 0 and a radius
\* of 1; the other one has the params it was created with
C28_Witness ==
  /\ probe.fn = "editor" /\ probe.op = "save"
  /\ DOMAIN probe.placements = {<< 0, 0 >>, << 1, 0 >>}
  /\ probe.placements[<< 1, 0 >>]["params"].volume = 0
  /\ probe.placements[<< 1, 0 >>]["params"].radius = 1
  /\ probe.placements[<< 1, 0 >>]["libId"] = "rec2"
  /\ probe.placements[<< 0, 0 >>]["params"] = NewParams

\* a placement operation has just been handled: a choice in the chooser or
\* in the library panel, a deletion input, a Remove button, or the deletion
\* of a recording
PlacementOp == last'.op \in {"Enter", "place", "delete", "remove", "libDelete"}

\* the step has added a placement at the end of the store
Created == Len(placements') = Len(placements) + 1

\* C29: placement operations leave the cursor where it is and never change
\* another placement: every placement of the store after the operation was
\* in it before, unchanged, but for the one that a creation appends; a
\* creation on cells that another placement covers is accepted all the same.
C29_PlacementOpsFrame ==
  [][PlacementOp
       => /\ cursor' = cursor
          /\ \A j \in 1 .. Len(placements') :
               \/ \E i \in 1 .. Len(placements) : placements[i] = placements'[j]
               \/ Created /\ j = Len(placements') /\ last'.op \in {"Enter", "place"}
          /\ Created => SubSeq(placements', 1, Len(placements)) = placements
          /\ (last'.op = "place" /\ cursor # Null) => Created]_vars

\* a single-cell placement has just been made on a cell that two
\* placements covered already; all three are in the store
C29_Witness ==
  /\ last.op = "place" /\ last.wasPlaced = 2
  /\ Len(placements) = 3
  /\ placements[3].cells = << [x |-> 0, y |-> 0] >>
  /\ OnCell(cursor, placements[1]) /\ OnCell(cursor, placements[2])

\* ---- C30 -----------------------------------------------------------------
\* the state in which every stop succeeds
Succeeding == [State EXCEPT !.stopThrows = FALSE]

\* the state the step that was just taken leads to when every stop succeeds
AfterSuccessfulTeardown ==
  IF last'.op = "remove"
  THEN Commit(Succeeding, RemoveButton(Succeeding, placements[last'.arg]))
  ELSE IF last'.op = "libDelete"
  THEN Commit(Succeeding, DeleteButton(Succeeding, library[last'.arg]))
  ELSE Dispatch(Succeeding, last'.key, FALSE)

\* C30: when stopping or disconnecting a voice's nodes throws during a
\* teardown (Remove button, Delete button of a recording, Backspace/Delete
\* key), nothing is surfaced: every voice whose placement is gone is out of
\* the voice registry, the voices that stay are untouched, and placements,
\* library, cursor, region and the registry are what the same step gives
\* when every stop succeeds.
C30_FailedStopIsSwallowed ==
  [][(stopThrows /\ last'.op \in {"remove", "libDelete", "delete"}) =>
       /\ last'.key # "alert"
       /\ \A id \in DOMAIN nodesRef :
            (id \in DOMAIN nodesRef') = (PlacementIdx(placements', id) # 0)
       /\ placements' = AfterSuccessfulTeardown.placements
       /\ library' = AfterSuccessfulTeardown.library
       /\ cursor' = AfterSuccessfulTeardown.cursor
       /\ region' = AfterSuccessfulTeardown.region
       /\ nodesRef' = AfterSuccessfulTeardown.nodesRef]_vars

\* stop throws in the session; two placements of a decoded recording were
\* made and both had voices; the second was removed with the Remove button
\* and only the first one's voice is left
C30_Witness ==
  /\ stopThrows
  /\ last.op = "remove" /\ last.wasPlaced = 2 /\ last.arg = 2
  /\ uidSeq = 2
  /\ Len(placements) = 1 /\ placements[1].id = 1
  /\ DOMAIN nodesRef = {1}

\* ---- C31 -----------------------------------------------------------------
\* C31: in every reachable state the region-active flag is true if and only
\* if the region sequence is non-empty.
C31_ActiveIffRegionNonEmpty == regionActive = (region # << >>)

\* Escape has just cleared a region that was in progress, after which a
\* Shift+Arrow would start from the remembered cell
C31_Witness ==
  /\ last.op = "Escape" /\ last.wasActive
  /\ ~regionActive /\ region = << >>
  /\ lastRegionCell # Null

\* ---- C32 -----------------------------------------------------------------
\* C32: after every Shift+Arrow input, whether it started, extended or
\* trimmed the region, a region is in progress, the cursor is the last cell
\* of the region and the remembered last region cell is that cell too.
C32_CursorIsLastRegionCell ==
  [][Shifted =>
       /\ regionActive' /\ region' # << >>
       /\ cursor' = region'[Len(region')]
       /\ lastRegionCell' = cursor']_vars

\* a Shift+Arrow input has just appended a third cell to a region in
\* progress and the cursor stands on it
C32_Witness ==
  /\ last.op = "shiftArrow" /\ last.wasActive
  /\ regionActive /\ Len(region) = 3
  /\ NoRepeat(region)
  /\ cursor = region[3] /\ lastRegionCell = region[3]

\* ---- C33 -----------------------------------------------------------------
\* the keys that move the highlight of the chooser
NavigationKeys == {"ArrowUp", "ArrowDown"}

\* C33: while the chooser is open, ArrowUp and ArrowDown change only the
\* highlight index: the cursor, the region, the region-active flag, the
\* placements and the voices (their gains) are as before.
C33_NavigationKeysOnlyMoveHighlight ==
  [][\A k \in NavigationKeys :
       (searchOpen /\ KeyDown(k, FALSE))
         => /\ cursor' = cursor
            /\ region' = region
            /\ regionActive' = regionActive
            /\ placements' = placements
            /\ nodesRef' = nodesRef]_vars

\* ---- C34 -----------------------------------------------------------------
\* the list the chooser shows
ShownList == filteredLibrary(library, searchQuery)

\* C34: while the chooser is open and its filtered list is non-empty, the
\* highlight index is at least 0 and less than the length of the list.
C34_HighlightWithinList ==
  (searchOpen /\ ShownList # << >>)
    => (0 <= searchHighlightIdx /\ searchHighlightIdx < Len(ShownList))

\* ---- C35 -----------------------------------------------------------------
\* C35: a step that creates a placement gives it the id of a recording that
\* is in the library when the step is taken; in particular a confirm in
\* the chooser never chooses a recording that was deleted, also when the
\* chooser was opened before the deletion.
C35_PlacedRecordingIsInLibrary ==
  [][Len(placements') > Len(placements)
       => LibraryIdx(library, placements'[Len(placements')].libId) # 0]_vars

\* ---- C36 -----------------------------------------------------------------
\* the user deleted an entry with the id of item
DeletedByUser(item) == \E r \in removed : r.id = item.id

\* the record under LIB_KEY holds item
InStoredLibrary(item) == \E k \in 1 .. Len(storedLib) : storedLib[k] = item

\* C36: every upload entry of the library record read at startup that the
\* user has not deleted is in the library record at every later moment,
\* also while its rehydration decode is in flight (rehydrating holds the
\* entries of the startup record whose decode has not settled).
C36_PersistedUploadsStayStored ==
  \A item \in rehydrating : ~DeletedByUser(item) => InStoredLibrary(item)

\* ---- C37 -----------------------------------------------------------------
\* the placements of the variant that have nodes
Owners == {k \in DOMAIN probe.placements : "nodes" \in DOMAIN probe.placements[k]}

\* C37: in the single-cell variant every running audio source is owned by
\* a placement: as many sources run as there are placements with nodes,
\* also after a recording was chosen on a cell that held a placement with
\* a running voice, and after a placement was removed.
C37_NoSourceWithoutPlacement ==
  probe.fn = "editor" => probe.running = Cardinality(Owners)

\* ---- C38 -----------------------------------------------------------------
\* the ids a placement can have: those of an earlier session and those uid
\* returns in a session
PlacementIds == -1 .. MaxSteps

PlacementOf(pid) == placements[PlacementIdx(placements, pid)]

\* the placement pid is in the store and the library holds its recording
\* with a decoded buffer
Resolved(pid) ==
  /\ PlacementIdx(placements, pid) # 0
  /\ HasBuffer(library, PlacementOf(pid).libId)

\* the placement pid has a voice whose gain is the one for the cursor
Voiced(pid) ==
  /\ PlacementIdx(placements, pid) # 0
  /\ pid \in DOMAIN nodesRef
  /\ nodesRef[pid].gain = TargetGain(cursor, PlacementOf(pid))

\* C38: for every placement, created in the session or read from storage
\* before its recording is in the library: whenever the placement is in the
\* store and the library holds its recording with a decoded buffer, a voice
\* for it eventually exists, with its gain computed against the cursor.
C38_ResolvedPlacementGetsVoice ==
  \A pid \in PlacementIds : Resolved(pid) ~> Voiced(pid)

\* the decode of the second file of the manifest has given the second
\* placement read from storage a voice, after the cursor was set within
\* its reach
C38_Witness ==
  /\ last.op = "manifest" /\ last.arg = 2
  /\ Len(placements) = 2 /\ placements[2].id = 0
  /\ cursor # Null
  /\ Voiced(0) /\ nodesRef[0].gain # ZeroGain

====
